---- MODULE Spec2Model ----
(***************************************************************************)
(* A model of daidanlu/ai-rag-demo: the retrieval index kept by            *)
(* RAGService (rag.py) in three files under db/, chunk_text and answer,    *)
(* the HTTP handlers of rag_api/views.py that share one module-level       *)
(* RAGService, and the storage backends of rag_backend/: MemoryStorage,    *)
(* and QdrantStorage with the remote service it sends its requests to.     *)
(*                                                                         *)
(* Texts are sequences of one-character strings.  Embeddings are integer   *)
(* unit vectors, so the cosine distance of two of them is 1 - dot.         *)
(***************************************************************************)
EXTENDS Integers, Sequences, FiniteSets, TLC

\* ------------------------------------------------------------------ bounds

\* ingest_files calls that reach the uuid4 stage (the supply of fresh uuids)
MaxIngests == 2

\* stands for max_words=180 of ingest_files, scaled to the short model texts
MaxWords == 2

\* total number of entries a MemoryStorage instance is driven to
MaxStore == 3

\* points the remote collection is driven to
MaxPoints == 2

\* length in characters of the texts chunk_text is applied to on its own
MaxLen == 6

\* largest max_words chunk_text is called with on its own (from 1)
MaxChunkWords == 3

\* ------------------------------------------------------------- text helpers

Range(s) == {s[i] : i \in 1..Len(s)}

Min(a, b) == IF a < b THEN a ELSE b

IsSpace(c) == c \in {" ", "\n"}

\* the lookbehind class [.!?。！？] of _simple_sentence_split
IsTerminal(c) == c \in {".", "!", "?"}

RECURSIVE LStrip(_)
LStrip(s) == IF s # <<>> /\ IsSpace(s[1]) THEN LStrip(Tail(s)) ELSE s

RECURSIVE RStrip(_)
RStrip(s) ==
  IF s # <<>> /\ IsSpace(s[Len(s)]) THEN RStrip(SubSeq(s, 1, Len(s) - 1)) ELSE s

\* str.strip()
Strip(s) == RStrip(LStrip(s))

\* re.split(r"(?<=[.!?。！？])\s+", text): cut out every maximal run of
\* whitespace that directly follows a terminal character. prev is the character
\* before rest ("" at the start), cur the piece collected so far.
RECURSIVE ReSplit(_, _, _)
ReSplit(rest, prev, cur) ==
  IF rest = <<>> THEN <<cur>>
  ELSE IF IsSpace(rest[1]) /\ IsTerminal(prev)
       THEN <<cur>> \o ReSplit(LStrip(rest), " ", <<>>)
       ELSE ReSplit(Tail(rest), rest[1], Append(cur, rest[1]))

\* [s.strip() for s in pieces if s and s.strip()]
RECURSIVE StripNonEmpty(_)
StripNonEmpty(pieces) ==
  IF pieces = <<>> THEN <<>>
  ELSE IF Strip(pieces[1]) # <<>>
       THEN <<Strip(pieces[1])>> \o StripNonEmpty(Tail(pieces))
       ELSE StripNonEmpty(Tail(pieces))

_simple_sentence_split(text) == StripNonEmpty(ReSplit(text, "", <<>>))

\* str.split(): the maximal runs of non-whitespace characters
RECURSIVE SplitWords(_, _)
SplitWords(rest, cur) ==
  IF rest = <<>> THEN (IF cur = <<>> THEN <<>> ELSE <<cur>>)
  ELSE IF IsSpace(rest[1])
       THEN (IF cur = <<>> THEN <<>> ELSE <<cur>>) \o SplitWords(Tail(rest), <<>>)
       ELSE SplitWords(Tail(rest), Append(cur, rest[1]))

Words(s) == SplitWords(s, <<>>)

\* " ".join(parts)
RECURSIVE Join(_)
Join(parts) ==
  IF parts = <<>> THEN <<>>
  ELSE IF Len(parts) = 1 THEN parts[1]
       ELSE parts[1] \o <<" ">> \o Join(Tail(parts))

\* as ChunkLoop, flushing the buffer whenever the budget is exceeded, without
\* the test that the buffer holds a sentence
RECURSIVE ChunkLoopFlushingEmpty(_, _, _, _, _)
ChunkLoopFlushingEmpty(sents, chunks, buf, count, max_words) ==
  IF sents = <<>>
  THEN (IF buf # <<>> THEN Append(chunks, Join(buf)) ELSE chunks)
  ELSE LET s == sents[1]
           w == Len(Words(s))
       IN IF count + w > max_words
          THEN ChunkLoopFlushingEmpty(Tail(sents), Append(chunks, Join(buf)), <<s>>, w,
                                      max_words)
          ELSE ChunkLoopFlushingEmpty(Tail(sents), chunks, Append(buf, s), count + w,
                                      max_words)

\* the for loop of chunk_text over the sentences, then the final flush of buf
RECURSIVE ChunkLoop(_, _, _, _, _)
ChunkLoop(sents, chunks, buf, count, max_words) ==
  IF sents = <<>>
  THEN (IF buf # <<>> THEN Append(chunks, Join(buf)) ELSE chunks)
  ELSE LET s == sents[1]
           w == Len(Words(s))
       IN IF count + w > max_words /\ buf # <<>>
          THEN ChunkLoop(Tail(sents), Append(chunks, Join(buf)), <<s>>, w, max_words)
          ELSE ChunkLoop(Tail(sents), chunks, Append(buf, s), count + w, max_words)

\* the fallback loop of chunk_text: windows of max_words words
RECURSIVE Windows(_, _)
Windows(words, max_words) ==
  IF words = <<>> THEN <<>>
  ELSE <<Join(SubSeq(words, 1, Min(max_words, Len(words))))>>
       \o Windows(SubSeq(words, Min(max_words, Len(words)) + 1, Len(words)), max_words)

chunk_text(text, max_words) ==
  LET chunks == ChunkLoop(_simple_sentence_split(text), <<>>, <<>>, 0, max_words)
  IN IF chunks = <<>> /\ text # <<>> THEN Windows(Words(text), max_words) ELSE chunks

\* the texts and word budgets chunk_text is called with on its own
Alphabet == {"a", ".", " ", "\n"}

Texts == UNION {[1..n -> Alphabet] : n \in 0..MaxLen}

\* ------------------------------------------------------- documents on disk

\* the files an ingest can be pointed at, in the order sorted() puts them
PathOrder ==
  <<"arch/a.pdf", "data/a.pdf", "data/b.pdf", "data/e.pdf", "data/n.txt", "data/x.pdf">>

Paths == Range(PathOrder)

\* os.path.basename
Basename(p) ==
  CASE p = "arch/a.pdf" -> "a.pdf"
    [] p = "data/a.pdf" -> "a.pdf"
    [] p = "data/b.pdf" -> "b.pdf"
    [] p = "data/e.pdf" -> "e.pdf"
    [] p = "data/n.txt" -> "n.txt"
    [] p = "data/x.pdf" -> "x.pdf"

\* p.lower().endswith(".pdf")
IsPdf(p) == p # "data/n.txt"

\* PdfReader(p) raises for a file that is no PDF
Readable(p) == p # "data/x.pdf"

\* "\n".join(page.extract_text() or "" for page in reader.pages)
PageText(p) ==
  CASE p = "arch/a.pdf" -> <<"b", ".">>
    [] p = "data/a.pdf" ->
         <<"a", " ", "b", ".", " ", "\n", "a", ".", " ", "b", " ", "a", ".", " ">>
    [] p = "data/b.pdf" -> <<" ", "b", " ", "b", ".", " ", "a", ".">>
    [] p = "data/e.pdf" -> <<" ", "\n", " ">>
    [] OTHER -> <<>>

\* the patterns an ingest is called with, each given by the paths glob finds
IngestInputs ==
  { {"data/a.pdf"}, {"data/b.pdf"}, {"data/a.pdf", "data/b.pdf"},
    {"data/e.pdf", "data/x.pdf"}, {"data/n.txt"}, {"arch/a.pdf", "data/a.pdf"} }

\* the questions asked, and the k sent with them (the endpoints accept any integer)
Queries == { <<"a">>, <<"b", " ", "b">> }

Ks == {-1, 0, 1, 4}

\* ------------------------------------------------- rag.py: pure computations

RECURSIVE WsRunLen(_)
WsRunLen(s) == IF s # <<>> /\ IsSpace(s[1]) THEN 1 + WsRunLen(Tail(s)) ELSE 0

LastNewline(run) ==
  LET at == {i \in 1..Len(run) : run[i] = "\n"}
  IN IF at = {} THEN 0 ELSE CHOOSE i \in at : \A j \in at : j <= i

\* re.sub(r"\s+\n", "\n", text): in a run of whitespace, everything up to its
\* last newline becomes one newline when at least one character precedes it
RECURSIVE SubWsNewline(_)
SubWsNewline(rest) ==
  IF rest = <<>> THEN <<>>
  ELSE IF IsSpace(rest[1])
       THEN LET n == WsRunLen(rest)
                run == SubSeq(rest, 1, n)
                j == LastNewline(run)
                after == SubWsNewline(SubSeq(rest, n + 1, Len(rest)))
            IN IF j > 1 THEN <<"\n">> \o SubSeq(run, j + 1, n) \o after
               ELSE run \o after
       ELSE <<rest[1]>> \o SubWsNewline(Tail(rest))

\* load_pdfs: (basename, text) of every path that can be read, in order
RECURSIVE load_pdfs(_)
load_pdfs(paths) ==
  IF paths = <<>> THEN <<>>
  ELSE LET p == paths[1]
       IN (IF Readable(p)
           THEN << <<Basename(p), Strip(SubWsNewline(PageText(p)))>> >>
           ELSE <<>>)
          \o load_pdfs(Tail(paths))

\* sorted(set(paths)) filtered to the PDFs
PdfPaths(found) == SelectSeq(PathOrder, LAMBDA p : p \in found /\ IsPdf(p))

\* the nested loop of ingest_files: one (doc_id, chunk_idx, text) per chunk
RECURSIVE DocChunks(_)
DocChunks(docs) ==
  IF docs = <<>> THEN <<>>
  ELSE LET doc_id == docs[1][1]
           chunks == chunk_text(docs[1][2], MaxWords)
       IN [i \in 1..Len(chunks) |->
             [doc_id |-> doc_id, chunk_idx |-> i - 1, text |-> chunks[i]]]
          \o DocChunks(Tail(docs))

\* uuid.uuid4().hex[:8] of the j-th chunk of the n-th ingest: a fresh value
Uuid(n, j) == <<n, j>>

\* metas as ingest_files builds them; "id" is f"{doc_id}:{i}:{uuid}"
MetasOf(entries, n) ==
  [j \in 1..Len(entries) |->
     [doc_id |-> entries[j].doc_id,
      chunk_idx |-> entries[j].chunk_idx,
      id |-> <<entries[j].doc_id, entries[j].chunk_idx, Uuid(n, j)>>]]

TextsOf(entries) == [j \in 1..Len(entries) |-> entries[j].text]

\* SentenceTransformer.encode(..., normalize_embeddings=True) of one text: a
\* fixed unit vector per text
Embed(text) ==
  LET odd == Len(Words(text)) % 2 = 1
  IN IF text # <<>> /\ text[1] = "b"
     THEN (IF odd THEN <<-1, 0>> ELSE <<0, -1>>)
     ELSE (IF odd THEN <<1, 0>> ELSE <<0, 1>>)

EmbsOf(texts) == [j \in 1..Len(texts) |-> Embed(texts[j])]

RECURSIVE Dot(_, _)
Dot(u, v) == IF u = <<>> \/ v = <<>> THEN 0 ELSE u[1] * v[1] + Dot(Tail(u), Tail(v))

\* metric="cosine" on unit vectors
CosineDistance(u, v) == 1 - Dot(u, v)

\* the sequences of n distinct indices into 1..size
RECURSIVE IndexSeqs(_, _)
IndexSeqs(size, n) ==
  IF n = 0 THEN {<<>>}
  ELSE UNION {{Append(s, i) : i \in (1..size) \ Range(s)} : s \in IndexSeqs(size, n - 1)}

\* NearestNeighbors(metric="cosine").kneighbors(q, n_neighbors=n): the n nearest
\* rows by ascending distance. The order among rows at equal distance is left to
\* argpartition/argsort, which are not stable: any such order may come out.
kneighbors(embs, q, n) ==
  LET d(i) == CosineDistance(embs[i], q)
  IN {idx \in IndexSeqs(Len(embs), n) :
        /\ \A a, b \in 1..n : a < b => d(idx[a]) <= d(idx[b])
        /\ \A j \in (1..Len(embs)) \ Range(idx) : \A a \in 1..n : d(idx[a]) <= d(j)}

\* ------------------------------------------------------------------ state

Workers == {1, 2}

VARIABLES
  files,       \* db/embeddings.npy, db/metas.json, db/chunks.json
  worker,      \* per request thread: the RAGService call it is in, and its locals
  resp,        \* per request thread: what its last call returned
  nIngest,     \* ingest_files calls that have drawn uuids so far
  sinceClear,  \* history: chunk counts returned by ingests since the last clear
  cleared,     \* history: clear_storage returned ok and no ingest began since
  storageMode, \* environment: RAG_STORAGE
  resetOnStartup, \* environment: RESET_ON_STARTUP
  qdrant,      \* the remote collection QDRANT_COLLECTION
  mem,         \* a MemoryStorage instance driven through its own methods
  memLast,     \* the last call made on mem, and what it returned
  ans,         \* the last RAGService.answer call through QueryAPIView
  chunked,     \* a chunk_text call on its own: its arguments and its result
  qclient      \* the QdrantStorage call in progress, and what the last one returned

vars == <<files, worker, resp, nIngest, sinceClear, cleared, storageMode,
          resetOnStartup, qdrant, mem, memLast, ans, chunked, qclient>>

httpVars == <<files, worker, resp, nIngest, sinceClear, cleared>>

envVars == <<storageMode, resetOnStartup>>

memVars == <<mem, memLast>>

\* the calls modelled on their own: answer, chunk_text, the QdrantStorage client
callVars == <<ans, chunked, qclient>>

\* a file: missing, opened for writing and not yet written back, or holding data.
\* size stands for its length in bytes.
Absent == [st |-> "absent", data |-> <<>>, size |-> 0]

Partial == [st |-> "partial", data |-> <<>>, size |-> 0]

Written(data, size) == [st |-> "ok", data |-> data, size |-> size]

Idle ==
  [op |-> "idle", pc |-> "-", embs |-> <<>>, metas |-> <<>>, chunks |-> <<>>,
   query |-> <<>>, k |-> 0, wasCleared |-> FALSE]

NoResp ==
  [op |-> "none", status |-> "-", count |-> 0, hits |-> <<>>, log |-> "-",
   k |-> 0, query |-> <<>>, wasCleared |-> FALSE]

Response(op, status, count, hits, log, k, query, wasCleared) ==
  [op |-> op, status |-> status, count |-> count, hits |-> hits, log |-> log,
   k |-> k, query |-> query, wasCleared |-> wasCleared]

\* the serialised length of a list of texts: brackets, quotes and separators
RECURSIVE Chars(_)
Chars(texts) == IF texts = <<>> THEN 0 ELSE Len(texts[1]) + 4 + Chars(Tail(texts))

\* open(path, "w") truncates the file; the data goes in when the writer closes it.
Truncate(f) == Partial

\* The bytes written at offset 0 by a writer that opened the file earlier. When
\* another writer has filled the file in between, a longer content of the other
\* writer keeps its tail: json.load then fails on the extra data (np.load reads
\* the array its header announces and ignores the rest).
WriteBack(f, data, size, isJson) ==
  IF f.st = "ok" /\ f.size > size
  THEN (IF isJson THEN [Partial EXCEPT !.size = f.size]
        ELSE [Written(data, size) EXCEPT !.size = f.size])
  ELSE Written(data, size)

InitHttp ==
  /\ files = [emb |-> Absent, meta |-> Absent, text |-> Absent]
  /\ worker = [w \in Workers |-> Idle]
  /\ resp = [w \in Workers |-> NoResp]
  /\ nIngest = 0
  /\ sinceClear = 0
  /\ cleared = FALSE

\* EMBED_DIM (384 unless the environment says otherwise), scaled to the
\* two-component vectors of the model
EMBED_DIM == 2

DISTANCE == "Cosine"

\* the service holds no collection named QDRANT_COLLECTION
NoCollection ==
  [exists |-> FALSE, size |-> 0, distance |-> "-", points |-> <<>>, deleting |-> FALSE]

\* a collection as PUT /collections/{name} creates it. deleting: the service has
\* acknowledged a DELETE of the collection and not yet carried it out.
Collection(size, distance) ==
  [exists |-> TRUE, size |-> size, distance |-> distance, points |-> <<>>,
   deleting |-> FALSE]

InitQdrant == qdrant = NoCollection

\* ---------------------------------------------------- RAGService.ingest_files

\* as ReturnZero, with a _save_index of the empty lists before the return
ReturnZeroAfterSaving(w, log) ==
  /\ resp' = [resp EXCEPT ![w] = Response("ingest", "ok", 0, <<>>, log, 0, <<>>, FALSE)]
  /\ files' = [emb |-> Written(<<>>, 0), meta |-> Written(<<>>, 0),
               text |-> Written(<<>>, 0)]
  /\ UNCHANGED <<worker, nIngest, sinceClear>>

\* the two early returns of ingest_files: print "[INFO] No PDFs found." (log
\* "no_pdfs") or "[WARN] No text chunks extracted." (log "no_chunks"), return 0
ReturnZero(w, log) ==
  /\ resp' = [resp EXCEPT ![w] = Response("ingest", "ok", 0, <<>>, log, 0, <<>>, FALSE)]
  /\ UNCHANGED <<files, worker, nIngest, sinceClear>>

\* ingest_files up to np.save's open of embeddings.npy: glob, load_pdfs,
\* chunk_text, uuid4 and encode touch nothing shared. Returns 0 at once when no
\* PDF is found or no chunk is extracted.
IngestStart(w, found) ==
  LET paths == PdfPaths(found)
      entries == DocChunks(load_pdfs(paths))
      texts == TextsOf(entries)
  IN /\ worker[w].op = "idle"
     /\ cleared' = FALSE
     /\ IF paths = <<>> \/ entries = <<>>
        THEN ReturnZero(w, IF paths = <<>> THEN "no_pdfs" ELSE "no_chunks")
        ELSE /\ nIngest < MaxIngests
             /\ nIngest' = nIngest + 1
             /\ worker' = [worker EXCEPT ![w] =
                  [Idle EXCEPT !.op = "ingest", !.pc = "emb_write",
                               !.embs = EmbsOf(texts),
                               !.metas = MetasOf(entries, nIngest + 1),
                               !.chunks = texts]]
             /\ files' = [files EXCEPT !.emb = Truncate(@)]
             /\ resp' = [resp EXCEPT ![w] = NoResp]
             /\ UNCHANGED sinceClear
     /\ UNCHANGED <<envVars, callVars, qdrant, memVars>>

\* _save_index, np.save closing embeddings.npy
SaveEmbWrite(w) ==
  /\ worker[w].op = "ingest" /\ worker[w].pc = "emb_write"
  /\ files' = [files EXCEPT !.emb =
                 WriteBack(@, worker[w].embs, Len(worker[w].embs), FALSE)]
  /\ worker' = [worker EXCEPT ![w].pc = "meta_open"]
  /\ UNCHANGED <<resp, nIngest, sinceClear, cleared, envVars, callVars, qdrant, memVars>>

\* _save_index, open(META_PATH, "w")
SaveMetaOpen(w) ==
  /\ worker[w].op = "ingest" /\ worker[w].pc = "meta_open"
  /\ files' = [files EXCEPT !.meta = Truncate(@)]
  /\ worker' = [worker EXCEPT ![w].pc = "meta_write"]
  /\ UNCHANGED <<resp, nIngest, sinceClear, cleared, envVars, callVars, qdrant, memVars>>

\* _save_index, json.dump(metas) and the close of metas.json
SaveMetaWrite(w) ==
  /\ worker[w].op = "ingest" /\ worker[w].pc = "meta_write"
  /\ files' = [files EXCEPT !.meta =
                 WriteBack(@, worker[w].metas, Len(worker[w].metas), TRUE)]
  /\ worker' = [worker EXCEPT ![w].pc = "text_open"]
  /\ UNCHANGED <<resp, nIngest, sinceClear, cleared, envVars, callVars, qdrant, memVars>>

\* _save_index, open(TEXT_PATH, "w")
SaveTextOpen(w) ==
  /\ worker[w].op = "ingest" /\ worker[w].pc = "text_open"
  /\ files' = [files EXCEPT !.text = Truncate(@)]
  /\ worker' = [worker EXCEPT ![w].pc = "text_write"]
  /\ UNCHANGED <<resp, nIngest, sinceClear, cleared, envVars, callVars, qdrant, memVars>>

\* _save_index, json.dump(chunks) and the close of chunks.json; ingest_files
\* then returns len(all_chunks)
SaveTextWrite(w) ==
  /\ worker[w].op = "ingest" /\ worker[w].pc = "text_write"
  /\ files' = [files EXCEPT !.text =
                 WriteBack(@, worker[w].chunks, Chars(worker[w].chunks), TRUE)]
  /\ worker' = [worker EXCEPT ![w] = Idle]
  /\ resp' = [resp EXCEPT ![w] =
       Response("ingest", "ok", Len(worker[w].chunks), <<>>, "ingested", 0, <<>>, FALSE)]
  /\ sinceClear' = sinceClear + Len(worker[w].chunks)
  /\ UNCHANGED <<nIngest, cleared, envVars, callVars, qdrant, memVars>>

\* _save_index is interrupted (the process is killed, a write raises): whatever
\* it has written so far stays on disk
SaveInterrupted(w) ==
  /\ worker[w].op = "ingest"
  /\ worker' = [worker EXCEPT ![w] = Idle]
  /\ resp' = [resp EXCEPT ![w] =
       Response("ingest", "interrupted", 0, <<>>, worker[w].pc, 0, <<>>, FALSE)]
  /\ UNCHANGED <<files, nIngest, sinceClear, cleared, envVars, callVars, qdrant, memVars>>

\* ------------------------------------------------------- RAGService.retrieve

\* np.load / json.load succeed on a file that was written back whole
Parses(f) == f.st = "ok"

\* os.path.exists of the three files
IndexExists ==
  files.emb.st # "absent" /\ files.meta.st # "absent" /\ files.text.st # "absent"

\* what retrieve hands its caller when _load_index gave (None, None, None): the
\* except branch of _load_index and the missing-file branch both end in return []
NoIndexStatus == "ok"

\* as ReturnNoIndex, with an except branch that lets the exception through
ReturnNoIndexReraising(w, log, query, k) ==
  /\ resp' = [resp EXCEPT ![w] =
       Response("retrieve", IF log = "load_error" THEN "raised" ELSE NoIndexStatus,
                0, <<>>, log, k, query,
                cleared /\ (worker[w].op = "idle" \/ worker[w].wasCleared))]
  /\ worker' = [worker EXCEPT ![w] = Idle]

\* retrieve returns [] because _load_index found no index (log "no_index": only
\* the [INFO] line is printed) or failed to load it (log "load_error": the
\* [ERROR] line is printed first)
ReturnNoIndex(w, log, query, k) ==
  /\ resp' = [resp EXCEPT ![w] =
       Response("retrieve", NoIndexStatus, 0, <<>>, log, k, query,
                cleared /\ (worker[w].op = "idle" \/ worker[w].wasCleared))]
  /\ worker' = [worker EXCEPT ![w] = Idle]

\* retrieve from its call to np.load(EMB_PATH) in _load_index
RetrieveLoadEmb(w, query, k) ==
  /\ worker[w].op = "idle"
  /\ IF ~IndexExists THEN ReturnNoIndex(w, "no_index", query, k)
     ELSE IF ~Parses(files.emb) THEN ReturnNoIndex(w, "load_error", query, k)
     ELSE /\ worker' = [worker EXCEPT ![w] =
               [Idle EXCEPT !.op = "retrieve", !.pc = "load_meta",
                            !.embs = files.emb.data, !.query = query, !.k = k,
                            !.wasCleared = cleared]]
          /\ resp' = [resp EXCEPT ![w] = NoResp]
  /\ UNCHANGED <<files, nIngest, sinceClear, cleared, envVars, callVars, qdrant, memVars>>

\* _load_index, json.load of metas.json
RetrieveLoadMeta(w) ==
  /\ worker[w].op = "retrieve" /\ worker[w].pc = "load_meta"
  /\ IF ~Parses(files.meta)
     THEN ReturnNoIndex(w, "load_error", worker[w].query, worker[w].k)
     ELSE /\ worker' = [worker EXCEPT ![w].pc = "load_text",
                                      ![w].metas = files.meta.data]
          /\ UNCHANGED resp
  /\ UNCHANGED <<files, nIngest, sinceClear, cleared, envVars, callVars, qdrant, memVars>>

\* _load_index, json.load of chunks.json
RetrieveLoadText(w) ==
  /\ worker[w].op = "retrieve" /\ worker[w].pc = "load_text"
  /\ IF ~Parses(files.text)
     THEN ReturnNoIndex(w, "load_error", worker[w].query, worker[w].k)
     ELSE /\ worker' = [worker EXCEPT ![w].pc = "search",
                                      ![w].chunks = files.text.data]
          /\ UNCHANGED resp
  /\ UNCHANGED <<files, nIngest, sinceClear, cleared, envVars, callVars, qdrant, memVars>>

\* one entry of hits
Hit(embs, metas, chunks, q, i) ==
  [id |-> metas[i].id,
   text |-> chunks[i],
   meta |-> [doc_id |-> metas[i].doc_id, chunk_idx |-> metas[i].chunk_idx],
   distance |-> CosineDistance(embs[i], q)]

\* retrieve after _load_index: what it returns or that it raises. kneighbors
\* raises ValueError for n_neighbors < 0, metas[idx] and chunks[idx] raise
\* IndexError past the end of the list.
Search(embs, metas, chunks, query, k) ==
  LET q == Embed(query)
      n_neighbors == Min(k, Len(embs))
  IN IF n_neighbors = 0 THEN {[status |-> "ok", hits |-> <<>>]}
     ELSE IF n_neighbors < 0 THEN {[status |-> "raised", hits |-> <<>>]}
     ELSE {IF \E a \in 1..n_neighbors : idx[a] > Len(metas) \/ idx[a] > Len(chunks)
           THEN [status |-> "raised", hits |-> <<>>]
           ELSE [status |-> "ok",
                 hits |-> [a \in 1..n_neighbors |-> Hit(embs, metas, chunks, q, idx[a])]]
           : idx \in kneighbors(embs, q, n_neighbors)}

\* retrieve, lines 154-180: fit, encode the query, kneighbors, build the hits
RetrieveSearch(w) ==
  /\ worker[w].op = "retrieve" /\ worker[w].pc = "search"
  /\ \E out \in Search(worker[w].embs, worker[w].metas, worker[w].chunks,
                       worker[w].query, worker[w].k) :
       resp' = [resp EXCEPT ![w] =
         Response("retrieve", out.status, 0, out.hits, "searched", worker[w].k,
                  worker[w].query, worker[w].wasCleared /\ cleared)]
  /\ worker' = [worker EXCEPT ![w] = Idle]
  /\ UNCHANGED <<files, nIngest, sinceClear, cleared, envVars, callVars, qdrant, memVars>>

\* --------------------------------------- RAGService.answer, QueryAPIView

\* retrieve from its call to its return with no other request in between
RetrieveNow(query, k) ==
  IF ~IndexExists \/ ~Parses(files.emb) \/ ~Parses(files.meta) \/ ~Parses(files.text)
  THEN {[status |-> NoIndexStatus, hits |-> <<>>]}
  ELSE Search(files.emb.data, files.meta.data, files.text.data, query, k)

\* "[No results found]"
NoResultsText ==
  <<"[", "N", "o", " ", "r", "e", "s", "u", "l", "t", "s", " ", "f", "o", "u", "n",
    "d", "]">>

\* "[ERROR]", with which every failure string of call_llamacpp begins
ErrorMarker == <<"[", "E", "R", "R", "O", "R", "]">>

\* str.startswith
StartsWith(s, prefix) ==
  Len(s) >= Len(prefix) /\ SubSeq(s, 1, Len(prefix)) = prefix

\* "\n---\n".join(h["text"] for h in hits)
RECURSIVE JoinHits(_)
JoinHits(hits) ==
  IF hits = <<>> THEN <<>>
  ELSE IF Len(hits) = 1 THEN hits[1].text
       ELSE hits[1].text \o <<"\n", "-", "-", "-", "\n">> \o JoinHits(Tail(hits))

\* build_prompt: the numbered context entries and the question
build_prompt(query, hits) ==
  [context |-> [i \in 1..Len(hits) |-> <<i, hits[i].text>>], question |-> query]

\* what call_llamacpp returns: a completion, or a string that begins with
\* "[ERROR]" when llama-cpp is missing, the model file is missing or the run fails
LlmReplies == { <<"b", ".">>, ErrorMarker \o <<" ", "m">> }

\* as answer, handing the prompt to call_llamacpp whatever generate says
answerAlwaysGenerating(hits, query, generate, reply) ==
  IF hits = <<>> THEN [answer |-> NoResultsText, hits |-> <<>>, prompts |-> <<>>]
  ELSE [answer |-> reply, hits |-> hits, prompts |-> <<build_prompt(query, hits)>>]

\* RAGService.answer after its retrieve returned hits. prompts are the prompts
\* handed to call_llamacpp, reply is what call_llamacpp returns when called.
answer(hits, query, generate, reply) ==
  IF hits = <<>> THEN [answer |-> NoResultsText, hits |-> <<>>, prompts |-> <<>>]
  ELSE IF ~generate
       THEN [answer |-> JoinHits(hits), hits |-> hits, prompts |-> <<>>]
       ELSE [answer |-> reply, hits |-> hits, prompts |-> <<build_prompt(query, hits)>>]

NoAnswer ==
  [op |-> "none", status |-> "-", query |-> <<>>, k |-> 0, generate |-> FALSE,
   retrieved |-> <<>>, reply |-> <<>>, answer |-> <<>>, hits |-> <<>>,
   prompts |-> <<>>, http |-> 0]

InitAnswer == ans = NoAnswer

\* QueryAPIView.post: rag_service.answer(query, k, generate) and the response
\* built from it: 500 when answer raised or its text starts with "[ERROR]",
\* else 200, each with the answer and the hits as sources. retrieved is what
\* the retrieve inside answer returned.
Answer(w, query, k, generate, reply) ==
  /\ worker[w].op = "idle"
  /\ \E out \in RetrieveNow(query, k) :
       ans' = IF out.status = "raised"
              THEN [NoAnswer EXCEPT !.op = "answer", !.status = "raised",
                                    !.query = query, !.k = k, !.generate = generate,
                                    !.http = 500]
              ELSE LET result == answer(out.hits, query, generate, reply)
                   IN [op |-> "answer", status |-> "ok", query |-> query, k |-> k,
                       generate |-> generate, retrieved |-> out.hits,
                       reply |-> reply, answer |-> result.answer,
                       hits |-> result.hits, prompts |-> result.prompts,
                       http |-> IF StartsWith(result.answer, ErrorMarker)
                                THEN 500 ELSE 200]
  /\ UNCHANGED <<httpVars, envVars, qdrant, memVars, chunked, qclient>>

\* ------------------------------------------------- chunk_text on its own

\* no chunk_text call of its own
InitChunkIdle ==
  chunked = [text |-> <<>>, max_words |-> 1, chunks |-> <<>>, done |-> FALSE]

InitChunk ==
  chunked \in [text : Texts, max_words : 1..MaxChunkWords, chunks : {<<>>},
               done : {FALSE}]

\* chunks = chunk_text(text, max_words)
ChunkText ==
  /\ ~chunked.done
  /\ chunked' = [chunked EXCEPT !.chunks = chunk_text(chunked.text, chunked.max_words),
                                !.done = TRUE]
  /\ UNCHANGED <<httpVars, envVars, qdrant, memVars, ans, qclient>>

\* ---------------------------------------------- rag_backend: MemoryStorage

\* MemoryStorage.__init__
MemoryStorageNew == [vecs |-> <<>>, meta |-> <<>>]

\* MemoryStorage.upsert: extends both lists; returns {"ok": True, "count": len(vectors)}
MemoryUpsert(s, vectors, payloads) ==
  [vecs |-> s.vecs \o vectors, meta |-> s.meta \o payloads]

\* list[:k]
SliceTo(list, k) ==
  IF k >= 0 THEN SubSeq(list, 1, Min(k, Len(list)))
  ELSE SubSeq(list, 1, IF Len(list) + k > 0 THEN Len(list) + k ELSE 0)

\* MemoryStorage.search: the first k payloads, each with score 1.0
MemorySearch(s, query_vec, k) ==
  LET first == SliceTo(s.meta, k)
  IN [i \in 1..Len(first) |-> [id |-> i - 1, payload |-> first[i], score |-> 1]]

\* MemoryStorage.reset, and clear, which calls it
MemoryReset(s) == [vecs |-> <<>>, meta |-> <<>>]

InitMemory ==
  /\ mem = MemoryStorageNew
  /\ memLast = [op |-> "new", vectors |-> <<>>, payloads |-> <<>>,
                query |-> <<>>, k |-> 0, hits |-> <<>>, afterUpsert |-> FALSE,
                before |-> MemoryStorageNew]

\* the vectors and payloads MemoryStorage is driven with
StoreVectors == { <<1, 0>>, <<0, 1>>, <<1>> }

Payloads == { "p1", "p2" }

UpTo2(S) == {<<>>} \cup {<<x>> : x \in S} \cup {<<x, y>> : x \in S, y \in S}

Upsert(vectors, payloads) ==
  /\ Len(mem.vecs) + Len(vectors) <= MaxStore
  /\ Len(mem.meta) + Len(payloads) <= MaxStore
  /\ mem' = MemoryUpsert(mem, vectors, payloads)
  /\ memLast' = [op |-> "upsert", vectors |-> vectors, payloads |-> payloads,
                 query |-> <<>>, k |-> 0, hits |-> <<>>, afterUpsert |-> FALSE,
                before |-> mem]
  /\ UNCHANGED <<httpVars, envVars, callVars, qdrant>>

\* a search; afterUpsert says that the call before it was an upsert, whose
\* vectors and payloads are kept with it
SearchMemory(query_vec, k) ==
  /\ memLast' = [op |-> "search",
                 vectors |-> IF memLast.op = "upsert" THEN memLast.vectors ELSE <<>>,
                 payloads |-> IF memLast.op = "upsert" THEN memLast.payloads ELSE <<>>,
                 query |-> query_vec, k |-> k,
                 hits |-> MemorySearch(mem, query_vec, k),
                 afterUpsert |-> memLast.op = "upsert",
                 before |-> MemoryStorageNew]
  /\ UNCHANGED <<mem, httpVars, envVars, callVars, qdrant>>

ClearMemory ==
  /\ mem' = MemoryReset(mem)
  /\ memLast' = [op |-> "clear", vectors |-> <<>>, payloads |-> <<>>,
                 query |-> <<>>, k |-> 0, hits |-> <<>>, afterUpsert |-> FALSE,
                before |-> MemoryStorageNew]
  /\ UNCHANGED <<httpVars, envVars, callVars, qdrant>>

\* ---------------------------------------- the service behind QDRANT_URL

\* what a request comes back with: the collection afterwards, the status code,
\* the body. A request that meets a network error or a failing service is given
\* code 500: requests raises for the one, raise_for_status for the other.
Reply(q, code, result) == [q |-> q, code |-> code, result |-> result]

Failure(q) == Reply(q, 500, <<>>)

\* requests.delete(f"{QDRANT_URL}/collections/{QDRANT_COLLECTION}"): the service
\* drops the collection before it answers, or answers 202 and drops it later
HttpDeleteCollection(q, ok, async) ==
  IF ~ok THEN Failure(q)
  ELSE IF async /\ q.exists THEN Reply([q EXCEPT !.deleting = TRUE], 202, <<>>)
       ELSE Reply(NoCollection, 200, <<>>)

\* requests.put(f"{QDRANT_URL}/collections/{QDRANT_COLLECTION}", json=payload):
\* 409 when the collection exists, whatever its configuration
HttpPutCollection(q, ok) ==
  IF ~ok THEN Failure(q)
  ELSE IF q.exists THEN Reply(q, 409, <<>>)
       ELSE Reply(Collection(EMBED_DIM, DISTANCE), 200, <<>>)

\* requests.get(f"{QDRANT_URL}/collections/{QDRANT_COLLECTION}")
HttpGetCollection(q, ok) ==
  IF ~ok THEN Failure(q)
  ELSE IF q.exists THEN Reply(q, 200, <<>>) ELSE Reply(q, 404, <<>>)

\* requests.put(.../points, json={"points": points})
HttpPutPoints(q, ok, points) ==
  IF ~ok THEN Failure(q)
  ELSE IF ~q.exists THEN Reply(q, 404, <<>>)
  ELSE IF \E i \in 1..Len(points) : Len(points[i].vector) # q.size
       THEN Reply(q, 400, <<>>)
       ELSE Reply([q EXCEPT !.points = @ \o points], 200, <<Len(points)>>)

\* requests.post(.../points/search, json=body): the replies the service may
\* give, the limit nearest points first, with their payloads and scores
HttpPostSearch(q, ok, vector, limit) ==
  IF ~ok THEN {Failure(q)}
  ELSE IF ~q.exists THEN {Reply(q, 404, <<>>)}
  ELSE IF Len(vector) # q.size THEN {Reply(q, 400, <<>>)}
  ELSE LET vecs == [i \in 1..Len(q.points) |-> q.points[i].vector]
       IN {Reply(q, 200, [a \in 1..Len(idx) |->
                            [payload |-> q.points[idx[a]].payload,
                             score |-> Dot(vecs[idx[a]], vector)]])
           : idx \in kneighbors(vecs, vector, Min(limit, Len(vecs)))}

\* requests.post(.../points/delete, json={"filter": {"must": []}})
HttpPostPointsDelete(q, ok) ==
  IF ~ok THEN Failure(q)
  ELSE IF ~q.exists THEN Reply(q, 404, <<>>)
       ELSE Reply([q EXCEPT !.points = <<>>], 200, <<>>)

\* the service carries out a deletion it had acknowledged
ServiceCompletesDelete ==
  /\ qdrant.deleting
  /\ qdrant' = NoCollection
  /\ UNCHANGED <<httpVars, envVars, memVars, callVars>>

\* raise_for_status: raises for the 4xx and 5xx codes
RaisesForStatus(code) == code >= 400

\* ------------------------------------------- rag_backend: QdrantStorage

\* op, pc: the call in progress ("idle" between calls); last: the call made
\* last, reqs the requests it issued with their status codes, status and result
\* what it came to. ready: a QdrantStorage() has returned an object. built: the
\* requests of the last QdrantStorage() that returned. before: the number of
\* points in the collection when the last call began.
NoClient ==
  [op |-> "idle", pc |-> "-", last |-> "none", reqs |-> <<>>, status |-> "-",
   result |-> <<>>, ready |-> FALSE, built |-> <<>>, before |-> 0]

InitClient == qclient = NoClient

\* a call begins
Begin(c, op) ==
  [c EXCEPT !.op = op, !.last = op, !.reqs = <<>>, !.status = "-", !.result = <<>>,
            !.before = Len(qdrant.points)]

Requested(c, name, code) == [c EXCEPT !.reqs = Append(@, <<name, code>>)]

\* the call raises / returns result
Raise(c) == [c EXCEPT !.op = "idle", !.pc = "-", !.status = "raised"]

Return(c, result) ==
  [c EXCEPT !.op = "idle", !.pc = "-", !.status = "ok", !.result = result]

\* QdrantStorage.__init__ with RESET_ON_STARTUP set, lines 32-41: the DELETE of
\* the collection. An exception of requests.delete is printed and dropped, the
\* status code of the answer is not looked at.
InitDelete(ok, async) ==
  /\ qclient.op = "idle" /\ resetOnStartup
  /\ LET r == HttpDeleteCollection(qdrant, ok, async)
     IN /\ qdrant' = r.q
        /\ qclient' = [Requested(Begin(qclient, "init"), "DELETE collection", r.code)
                         EXCEPT !.pc = "put"]
  /\ UNCHANGED <<httpVars, envVars, memVars, ans, chunked>>

\* _ensure_collection, lines 46-53: the PUT; 200 and 409 go on, any other
\* failure raises out of __init__
EnsureCollectionPut(ok) ==
  /\ \/ qclient.op = "idle" /\ ~resetOnStartup
     \/ qclient.op = "init" /\ qclient.pc = "put"
  /\ LET r == HttpPutCollection(qdrant, ok)
         c == Requested(IF qclient.op = "idle" THEN Begin(qclient, "init") ELSE qclient,
                        "PUT collection", r.code)
     IN /\ qdrant' = r.q
        /\ qclient' = IF r.code \notin {200, 409} /\ RaisesForStatus(r.code)
                      THEN Raise(c)
                      ELSE [c EXCEPT !.pc = "get"]
  /\ UNCHANGED <<httpVars, envVars, memVars, ans, chunked>>

\* _ensure_collection, lines 55-56: the GET and raise_for_status; __init__ then
\* returns the object
EnsureCollectionGet(ok) ==
  /\ qclient.op = "init" /\ qclient.pc = "get"
  /\ LET r == HttpGetCollection(qdrant, ok)
         c == Requested(qclient, "GET collection", r.code)
     IN /\ qdrant' = r.q
        /\ qclient' = IF RaisesForStatus(r.code) THEN Raise(c)
                      ELSE [Return(c, <<>>) EXCEPT !.ready = TRUE, !.built = c.reqs]
  /\ UNCHANGED <<httpVars, envVars, memVars, ans, chunked>>

\* zip(vectors, payloads): pairs up to the shorter of the two
Zip(vectors, payloads) ==
  [i \in 1..Min(Len(vectors), Len(payloads)) |->
     [vector |-> vectors[i], payload |-> payloads[i]]]

\* QdrantStorage.upsert: one PUT of the zipped points (each under a fresh
\* uuid4, which nothing reads and the model leaves out), raise_for_status,
\* return r.json()
QdrantUpsert(vectors, payloads, ok) ==
  /\ qclient.op = "idle" /\ qclient.ready
  /\ Len(qdrant.points) + Len(Zip(vectors, payloads)) <= MaxPoints
  /\ LET r == HttpPutPoints(qdrant, ok, Zip(vectors, payloads))
         c == Requested(Begin(qclient, "upsert"), "PUT points", r.code)
     IN /\ qdrant' = r.q
        /\ qclient' = IF RaisesForStatus(r.code) THEN Raise(c) ELSE Return(c, r.result)
  /\ UNCHANGED <<httpVars, envVars, memVars, ans, chunked>>

\* QdrantStorage.search: one POST, raise_for_status, return the "result" list
QdrantSearch(query_vec, k, ok) ==
  /\ qclient.op = "idle" /\ qclient.ready
  /\ \E r \in HttpPostSearch(qdrant, ok, query_vec, k) :
       LET c == Requested(Begin(qclient, "search"), "POST points/search", r.code)
       IN /\ qdrant' = r.q
          /\ qclient' = IF RaisesForStatus(r.code) THEN Raise(c)
                        ELSE Return(c, r.result)
  /\ UNCHANGED <<httpVars, envVars, memVars, ans, chunked>>

\* as QdrantClearPoints, by dropping the collection and creating it again
QdrantClearRecreating(ok) ==
  /\ qclient.op = "idle" /\ qclient.ready
  /\ LET d == HttpDeleteCollection(qdrant, ok, FALSE)
         r == HttpPutCollection(d.q, ok)
         c == Requested(Requested(Begin(qclient, "clear"), "DELETE collection", d.code),
                        "PUT collection", r.code)
     IN /\ qdrant' = r.q
        /\ qclient' = IF RaisesForStatus(r.code) THEN Raise(c) ELSE Return(c, <<>>)
  /\ UNCHANGED <<httpVars, envVars, memVars, ans, chunked>>

\* QdrantStorage.clear: one POST points/delete with the match-all filter,
\* raise_for_status, return {"ok": True, ...}
QdrantClearPoints(ok) ==
  /\ qclient.op = "idle" /\ qclient.ready
  /\ LET r == HttpPostPointsDelete(qdrant, ok)
         c == Requested(Begin(qclient, "clear"), "POST points/delete", r.code)
     IN /\ qdrant' = r.q
        /\ qclient' = IF RaisesForStatus(r.code) THEN Raise(c) ELSE Return(c, <<>>)
  /\ UNCHANGED <<httpVars, envVars, memVars, ans, chunked>>

\* ------------------------------------------ rag_backend: clear_storage

\* whether each HTTP request of a call reaches the service and is served
NetOutcomes == [delete : BOOLEAN, put : BOOLEAN, get : BOOLEAN, post : BOOLEAN]

\* QdrantStorage.__init__ run from call to return against a service that drops
\* a collection before it answers the DELETE: with RESET_ON_STARTUP the DELETE
\* (a failure is printed and dropped), then _ensure_collection: PUT (200
\* created, 409 exists, anything else raises), then GET with raise_for_status.
\* Gives the collection afterwards and whether it raised.
QdrantConstruct(q, reset, net) ==
  LET d == IF reset THEN HttpDeleteCollection(q, net.delete, FALSE) ELSE Reply(q, 200, <<>>)
      p == HttpPutCollection(d.q, net.put)
      g == HttpGetCollection(p.q, net.get)
  IN [q |-> p.q,
      raised |-> (p.code \notin {200, 409} /\ RaisesForStatus(p.code))
                 \/ RaisesForStatus(g.code)]

\* QdrantStorage.clear run from call to return: POST points/delete with the
\* match-all filter, then raise_for_status
QdrantClear(q, net) ==
  LET r == HttpPostPointsDelete(q, net.post)
  IN [q |-> r.q, raised |-> RaisesForStatus(r.code)]

\* clear_storage, as ClearAPIView.post calls it: get_storage() builds a new
\* storage object, whose clear() is called
ClearStorage(w, net) ==
  /\ worker[w].op = "idle"
  /\ IF storageMode = "qdrant"
     THEN LET made == QdrantConstruct(qdrant, resetOnStartup, net)
              done == QdrantClear(made.q, net)
              raised == made.raised \/ done.raised
          IN /\ qdrant' = IF made.raised THEN made.q ELSE done.q
             /\ resp' = [resp EXCEPT ![w] =
                  Response("clear", IF raised THEN "raised" ELSE "ok", 0, <<>>,
                           "qdrant", 0, <<>>, FALSE)]
             /\ cleared' = IF raised THEN cleared ELSE TRUE
             /\ sinceClear' = IF raised THEN sinceClear ELSE 0
     ELSE /\ MemoryReset(MemoryStorageNew) = MemoryStorageNew
          /\ resp' = [resp EXCEPT ![w] =
               Response("clear", "ok", 0, <<>>, "memory", 0, <<>>, FALSE)]
          /\ cleared' = TRUE
          /\ sinceClear' = 0
          /\ UNCHANGED qdrant
  /\ UNCHANGED <<files, worker, nIngest, envVars, callVars, memVars>>

\* ---------------------------------------------------------- specifications

InitEnv ==
  /\ storageMode \in {"memory", "qdrant"}
  /\ resetOnStartup \in BOOLEAN

\* none of the calls modelled on their own has been made
InitCalls == InitAnswer /\ InitChunkIdle /\ InitClient

Init == InitHttp /\ InitMemory /\ InitQdrant /\ InitEnv /\ InitCalls

InitLocal ==
  /\ InitHttp /\ InitMemory /\ InitQdrant /\ InitCalls
  /\ storageMode = "memory"
  /\ resetOnStartup = FALSE

Ingest(w) ==
  \/ \E found \in IngestInputs : IngestStart(w, found)
  \/ SaveEmbWrite(w)
  \/ SaveMetaOpen(w)
  \/ SaveMetaWrite(w)
  \/ SaveTextOpen(w)
  \/ SaveTextWrite(w)

Retrieve(w) ==
  \/ \E query \in Queries, k \in Ks : RetrieveLoadEmb(w, query, k)
  \/ RetrieveLoadMeta(w)
  \/ RetrieveLoadText(w)
  \/ RetrieveSearch(w)

Clear(w) == \E net \in NetOutcomes : ClearStorage(w, net)

\* the server taking one request at a time; a save may be cut short
Next == Ingest(1) \/ Retrieve(1) \/ Clear(1) \/ SaveInterrupted(1)

Spec == Init /\ [][Next]_vars

\* ingests and retrieves of the local index, one request at a time; a save may
\* be cut short
NextLocal == Ingest(1) \/ Retrieve(1) \/ SaveInterrupted(1)

SpecLocal == InitLocal /\ [][NextLocal]_vars

\* an ingest request and a retrieve request in flight together
NextRW == Ingest(1) \/ Retrieve(2)

SpecRW == InitLocal /\ [][NextRW]_vars

\* two ingest requests in flight together
NextWW == Ingest(1) \/ Ingest(2)

SpecWW == InitLocal /\ [][NextWW]_vars

\* a MemoryStorage object under its own methods
NextStorage ==
  \/ \E vectors \in UpTo2(StoreVectors), payloads \in UpTo2(Payloads) :
       Upsert(vectors, payloads)
  \/ \E query_vec \in StoreVectors, k \in Ks : SearchMemory(query_vec, k)
  \/ ClearMemory

SpecStorage == InitLocal /\ [][NextStorage]_vars

\* POST /query/ between ingests, one request at a time
NextAnswer ==
  \/ Ingest(1)
  \/ \E query \in Queries, k \in Ks, generate \in BOOLEAN, reply \in LlmReplies :
       Answer(1, query, k, generate, reply)

SpecAnswer == InitLocal /\ [][NextAnswer]_vars

\* chunk_text applied to every text and word budget within the bounds
InitChunkText ==
  /\ InitHttp /\ InitMemory /\ InitQdrant /\ InitAnswer /\ InitClient
  /\ storageMode = "memory"
  /\ resetOnStartup = FALSE
  /\ InitChunk

NextChunk == ChunkText

SpecChunk == InitChunkText /\ [][NextChunk]_vars

\* the batches upsert is called with: matching, with a vector too many, and
\* with a vector of another dimension
QdrantBatches ==
  { [vectors |-> << <<1, 0>> >>, payloads |-> <<"p1">>],
    [vectors |-> << <<0, 1>> >>, payloads |-> <<"p2">>],
    [vectors |-> << <<1, 0>>, <<0, 1>> >>, payloads |-> <<"p1">>],
    [vectors |-> << <<1>> >>, payloads |-> <<"p1">>] }

QdrantQueries == { <<1, 0>>, <<0, 1>> }

Limits == {1, 4}

\* a process using QdrantStorage against a service that holds no collection, the
\* configured one, or one of another vector size
InitRemote ==
  /\ InitHttp /\ InitMemory /\ InitCalls
  /\ storageMode = "qdrant"
  /\ resetOnStartup \in BOOLEAN
  /\ qdrant \in {NoCollection, Collection(EMBED_DIM, DISTANCE),
                 Collection(EMBED_DIM + 1, DISTANCE)}

NextQdrant ==
  \/ \E ok \in BOOLEAN, async \in BOOLEAN : InitDelete(ok, async)
  \/ \E ok \in BOOLEAN : EnsureCollectionPut(ok)
  \/ \E ok \in BOOLEAN : EnsureCollectionGet(ok)
  \/ \E batch \in QdrantBatches, ok \in BOOLEAN :
       QdrantUpsert(batch.vectors, batch.payloads, ok)
  \/ \E query_vec \in QdrantQueries, k \in Limits, ok \in BOOLEAN :
       QdrantSearch(query_vec, k, ok)
  \/ \E ok \in BOOLEAN : QdrantClearPoints(ok)
  \/ ServiceCompletesDelete

SpecQdrant == InitRemote /\ [][NextQdrant]_vars

\* ------------------------------------------------------------ observations

\* what the n-th ingest of the paths found writes: embeddings, metas, chunks
SnapshotOf(found, n) ==
  LET entries == DocChunks(load_pdfs(PdfPaths(found)))
  IN [embs |-> EmbsOf(TextsOf(entries)),
      metas |-> MetasOf(entries, n),
      chunks |-> TextsOf(entries)]

\* the three lists are those of one ingest
SameIngest(embs, metas, chunks) ==
  \E found \in IngestInputs, n \in 1..MaxIngests :
    /\ embs # <<>>
    /\ SnapshotOf(found, n) = [embs |-> embs, metas |-> metas, chunks |-> chunks]

\* the three files parse and hold the lists of one ingest
DiskComplete ==
  /\ Parses(files.emb) /\ Parses(files.meta) /\ Parses(files.text)
  /\ SameIngest(files.emb.data, files.meta.data, files.text.data)

\* the number of chunks a retrieve would load
CollectionSize == IF DiskComplete THEN Len(files.emb.data) ELSE 0

\* the text has no sentence-terminal character followed by whitespace
NoSentenceBoundary(text) ==
  ~\E i \in 1..(Len(text) - 1) : IsTerminal(text[i]) /\ IsSpace(text[i + 1])

\* the sentences found in the chunks, chunk by chunk
RECURSIVE SentencesOf(_)
SentencesOf(chunks) ==
  IF chunks = <<>> THEN <<>>
  ELSE _simple_sentence_split(chunks[1]) \o SentencesOf(Tail(chunks))

\* the words found in the chunks, chunk by chunk
RECURSIVE WordsOf(_)
WordsOf(chunks) ==
  IF chunks = <<>> THEN <<>> ELSE Words(chunks[1]) \o WordsOf(Tail(chunks))

\* ceil(n / d)
CeilDiv(n, d) == (n + d - 1) \div d

AllSameLength(vecs) == \A i, j \in 1..Len(vecs) : Len(vecs[i]) = Len(vecs[j])

\* ---------------------------------------------------------------- claims

\* C1: after successful ingests with no clear in between, the collection read by
\* retrieve holds the chunks of all of them: its size is the sum of the chunk
\* counts those ingests returned.
IngestAccumulates ==
  (resp[1].op = "ingest" /\ resp[1].status = "ok" /\ resp[1].count > 0)
    => CollectionSize = sinceClear

\* C2: after clear_storage has returned ok, a retrieve (k >= 1) that runs before
\* the next ingest returns [].
ClearEmptiesRetrieve ==
  (resp[1].op = "retrieve" /\ resp[1].wasCleared /\ resp[1].k >= 1)
    => (resp[1].status = "ok" /\ resp[1].hits = <<>>)

\* C3: an upsert of one vector v with its payload, followed at once by a search
\* for exactly v with k >= 1, returns that payload at rank 1 with similarity 1.0,
\* whatever was stored before (v being stored once, all vectors of one length).
UpsertThenSearchRanksFirst ==
  ( /\ memLast.op = "search" /\ memLast.afterUpsert /\ memLast.k >= 1
    /\ Len(memLast.vectors) = 1 /\ Len(memLast.payloads) = 1
    /\ memLast.query = memLast.vectors[1]
    /\ Len(mem.vecs) = Len(mem.meta) /\ AllSameLength(mem.vecs)
    /\ Cardinality({i \in 1..Len(mem.vecs) : mem.vecs[i] = memLast.query}) = 1 )
    => ( /\ memLast.hits # <<>>
         /\ memLast.hits[1].payload = memLast.payloads[1]
         /\ memLast.hits[1].score = 1 )

\* C4: the hits of a search come in ascending distance to the query vector, and
\* hits at equal distance in insertion order.
SearchOrderedByDistance ==
  ( /\ memLast.op = "search"
    /\ Len(mem.vecs) = Len(mem.meta)
    /\ \A i \in 1..Len(mem.vecs) : Len(mem.vecs[i]) = Len(memLast.query) )
    => \A a, b \in 1..Len(memLast.hits) :
         a < b =>
           LET da == CosineDistance(mem.vecs[memLast.hits[a].id + 1], memLast.query)
               db == CosineDistance(mem.vecs[memLast.hits[b].id + 1], memLast.query)
           IN da < db \/ (da = db /\ memLast.hits[a].id < memLast.hits[b].id)

\* C5: on a complete snapshot, retrieve with any integer k returns without
\* raising, with at most min(k, size) hits (none for k <= 0) and exactly
\* min(k, size) hits for k >= 1.
RetrieveClampsK ==
  (resp[1].op = "retrieve" /\ DiskComplete)
    => /\ resp[1].status = "ok"
       /\ Len(resp[1].hits) =
            (IF resp[1].k >= 1 THEN Min(resp[1].k, CollectionSize) ELSE 0)

\* C6: an upsert holding a vector whose length differs from that of the
\* vectors already stored fails and leaves the collection as it was before the
\* call.
MismatchedUpsertRejected ==
  ( /\ memLast.op = "upsert"
    /\ memLast.before.vecs # <<>> /\ AllSameLength(memLast.before.vecs)
    /\ Len(memLast.before.vecs) = Len(memLast.before.meta)
    /\ Len(memLast.vectors) = Len(memLast.payloads)
    /\ \E i \in 1..Len(memLast.vectors) :
         Len(memLast.vectors[i]) # Len(memLast.before.vecs[1]) )
    => mem = memLast.before

\* C7: a _save_index that is interrupted leaves a complete snapshot on disk: once
\* an ingest has completed, an interrupted later one still leaves the files of
\* one ingest.
InterruptedSaveLeavesSnapshot ==
  (resp[1].op = "ingest" /\ resp[1].status = "interrupted" /\ sinceClear > 0)
    => DiskComplete

\* C8: a retrieve running beside an ingest searches embeddings, metadata and
\* texts that belong to the same ingest.
RetrieveLoadsOneSnapshot ==
  (worker[2].op = "retrieve" /\ worker[2].pc = "search")
    => SameIngest(worker[2].embs, worker[2].metas, worker[2].chunks)

\* C9: when two concurrent ingests have both returned and the three files
\* parse, the files hold the snapshot of one of the two, as after some serial
\* order of them.
ConcurrentIngestsSerialize ==
  ( /\ \A w \in Workers :
         worker[w].op = "idle" /\ resp[w].op = "ingest" /\ resp[w].status = "ok"
         /\ resp[w].count > 0
    /\ Parses(files.emb) /\ Parses(files.meta) /\ Parses(files.text) )
    => SameIngest(files.emb.data, files.meta.data, files.text.data)

\* C10, as claimed: retrieve (k >= 1) returns an empty result only when the
\* index is absent; files that are present but do not parse are not reported as
\* the empty result.
EmptyOnlyWhenAbsent ==
  ( /\ resp[1].op = "retrieve" /\ resp[1].k >= 1
    /\ resp[1].status = "ok" /\ resp[1].hits = <<>> )
    => ~IndexExists

\* C10, as amended: retrieve (k >= 1) returns an empty result exactly when a file
\* is missing or does not parse; the failed load is logged and returned as the
\* same empty result, never raised.
EmptyWhenAbsentOrMalformed ==
  (resp[1].op = "retrieve" /\ resp[1].k >= 1)
    => /\ (resp[1].status = "ok" /\ resp[1].hits = <<>>)
            <=> (~IndexExists \/ ~Parses(files.emb) \/ ~Parses(files.meta)
                 \/ ~Parses(files.text))
       /\ resp[1].log = "load_error" => (resp[1].status = "ok" /\ resp[1].hits = <<>>)

\* C10 witness: a retrieve has met three existing files of which one does not
\* parse, and has returned
MalformedSnapshotRetrieved ==
  /\ resp[1].op = "retrieve" /\ resp[1].k >= 1
  /\ resp[1].log = "load_error"
  /\ IndexExists

\* C11: an ingest_files call whose paths hold no PDF, or whose PDFs yield no
\* chunk, returns 0 without raising and leaves the three files as they were, so
\* that every retrieve gives afterwards what it gave before.
EmptyIngestKeepsSnapshot ==
  [][ ( /\ worker[1].op = "idle" /\ worker'[1].op = "idle" /\ resp'[1].op = "ingest"
        /\ \E found \in IngestInputs :
             /\ IngestStart(1, found)
             /\ \/ PdfPaths(found) = <<>>
                \/ DocChunks(load_pdfs(PdfPaths(found))) = <<>> )
      => /\ resp'[1].op = "ingest" /\ resp'[1].status = "ok" /\ resp'[1].count = 0
         /\ files' = files
         /\ \A query \in Queries, k \in Ks :
              RetrieveNow(query, k)' = RetrieveNow(query, k) ]_vars

\* C11 witness: an ingest that extracted no chunk has returned over a complete
\* snapshot of an earlier ingest
EmptyIngestOverSnapshot ==
  /\ resp[1].op = "ingest" /\ resp[1].log = "no_chunks" /\ resp[1].count = 0
  /\ DiskComplete

\* C12: answer returns the hits of its retrieve unchanged and hands a prompt to
\* the generator exactly when generate is true and there are hits; with
\* generate false the answer is the hit texts joined in rank order; with no hits
\* hits is empty; a reply of the generator, error-marked or not, is the answer.
AnswerComposesRetrieve ==
  (ans.op = "answer" /\ ans.status = "ok")
    => /\ ans.hits = ans.retrieved
       /\ Len(ans.prompts) <= 1
       /\ (ans.prompts # <<>>) <=> (ans.generate /\ ans.retrieved # <<>>)
       /\ (~ans.generate /\ ans.retrieved # <<>>)
            => ans.answer = JoinHits(ans.retrieved)
       /\ ans.retrieved = <<>> => ans.hits = <<>>
       /\ ans.prompts # <<>> => ans.answer = ans.reply

\* C12 witness: the generator was called and returned an error-marked string,
\* which came back as the answer together with the hits
ErrorReplyWithHits ==
  /\ ans.op = "answer" /\ ans.status = "ok" /\ ans.generate
  /\ StartsWith(ans.answer, ErrorMarker)
  /\ Len(ans.hits) >= 2

\* C13: chunk_text returns no empty chunk; a chunk of more than max_words words
\* is one sentence that is by itself that long; the sentences of the text are
\* in the chunks once each and in their order.
ChunksBoundedAndComplete ==
  chunked.done
    => LET sents == _simple_sentence_split(chunked.text)
           chunks == chunked.chunks
       IN /\ \A i \in 1..Len(chunks) : Words(chunks[i]) # <<>>
          /\ \A i \in 1..Len(chunks) :
               \/ Len(Words(chunks[i])) <= chunked.max_words
               \/ \E j \in 1..Len(sents) :
                    chunks[i] = sents[j] /\ Len(Words(sents[j])) > chunked.max_words
          /\ SentencesOf(chunks) = sents

\* C13 witness: a text of several sentences came out in several chunks, one of
\* them a single sentence over the budget
LongSentenceAmongChunks ==
  /\ chunked.done
  /\ Len(chunked.chunks) >= 2
  /\ \E i \in 1..Len(chunked.chunks) :
       Len(Words(chunked.chunks[i])) > chunked.max_words

LoadedSnapshotConsistent ==
  (worker[1].op = "retrieve" /\ worker[1].pc = "search")
    => /\ Len(worker[1].embs) = Len(worker[1].metas)
       /\ Len(worker[1].metas) = Len(worker[1].chunks)

\* C16: with reset-on-startup, once QdrantStorage() has returned after an
\* acknowledged DELETE, no later upsert or search that reaches the service finds
\* the collection missing.
ResetRecreatesAfterDeletion ==
  ( /\ resetOnStartup
    /\ qclient.op = "idle" /\ qclient.last \in {"upsert", "search"}
    /\ qclient.built # <<>> /\ qclient.built[1][2] \in {200, 202} )
    => qclient.reqs[1][2] # 404

\* C17: a MemoryStorage holds as many vectors as payloads after any sequence
\* of upsert and clear calls.
VectorsMatchPayloads == Len(mem.vecs) = Len(mem.meta)

\* C18: in the metadata an ingest_files call has written, no two entries have
\* the same (doc_id, chunk_idx).
ChunkKeysUnique ==
  (resp[1].op = "ingest" /\ resp[1].status = "ok" /\ resp[1].count > 0
   /\ Parses(files.meta))
    => \A i, j \in 1..Len(files.meta.data) :
         i # j => \/ files.meta.data[i].doc_id # files.meta.data[j].doc_id
                  \/ files.meta.data[i].chunk_idx # files.meta.data[j].chunk_idx

\* C19: for a text with words and no sentence terminal followed by whitespace,
\* chunk_text returns ceil(n / max_words) chunks of at most max_words words each,
\* holding the n words once and in order.
UnpunctuatedTextWindowed ==
  (chunked.done /\ Words(chunked.text) # <<>> /\ NoSentenceBoundary(chunked.text))
    => /\ Len(chunked.chunks) = CeilDiv(Len(Words(chunked.text)), chunked.max_words)
       /\ \A i \in 1..Len(chunked.chunks) :
            Len(Words(chunked.chunks[i])) <= chunked.max_words
       /\ WordsOf(chunked.chunks) = Words(chunked.text)

\* C20: a QdrantStorage call one of whose requests met a network error or a
\* failure status (the 409 of an existing collection aside) raises.
QdrantFailuresRaised ==
  ( /\ qclient.op = "idle"
    /\ \E i \in 1..Len(qclient.reqs) : qclient.reqs[i][2] \in {400, 404, 500} )
    => qclient.status = "raised"

\* C21: without reset-on-startup, a QdrantStorage() whose _ensure_collection
\* has succeeded leaves a collection of the configured dimension and metric: an
\* already-exists answer to the create counts as success only for such a one.
EnsureAcceptsOnlyMatching ==
  ( /\ ~resetOnStartup
    /\ qclient.op = "idle" /\ qclient.last = "init" /\ qclient.status = "ok" )
    => /\ qdrant.exists
       /\ qdrant.size = EMBED_DIM
       /\ qdrant.distance = DISTANCE

====
